---------------------------- MODULE Spec2Model ----------------------------
(* NYC housing price predictor: the frequency encoder (script/utils.py),   *)
(* the inference pipeline (script/predict.py) and the REST service         *)
(* (flask_app/app.py), as state machines.                                  *)
(*                                                                         *)
(* Three specifications share the module:                                  *)
(*   SpecPure  the pure functions prepare_features, the /predict field     *)
(*             validation and get_price_category, applied to inputs drawn  *)
(*             from bounded sets;                                          *)
(*   SpecEnc   one FrequencyEncoder object: construction, fit, transform;  *)
(*   Spec      one serving process: ModelCache, the artifact files, the    *)
(*             Flask start-up block and concurrent request threads.        *)
EXTENDS Integers, Sequences, FiniteSets, TLC

VARIABLES
    pcall,      \* SpecPure: the last pure call, its arguments and its result
    enc,        \* SpecEnc: the FrequencyEncoder object (its attributes)
    fitted,     \* SpecEnc: per column, what it held when last fitted (history)
    ecall,      \* SpecEnc: the last encoder call, its argument and its result
    disk,       \* Spec: the artifact files at MODEL_PATH and METADATA_PATH
    cache,      \* Spec: ModelCache._model and ModelCache._metadata
    heap,       \* Spec: the objects joblib.load has created, by identity
    app,        \* Spec: flask_app module globals model, metadata, model_info
    th,         \* Spec: per thread, the position in the code and the locals
    lru         \* Spec: the lru_cache of cached_predict, by input tuple

vars == <<pcall, enc, fitted, ecall, disk, cache, heap, app, th, lru>>
encVars == <<enc, fitted, ecall>>
svcVars == <<disk, cache, heap, app, th, lru>>

Range(s) == {s[i] : i \in DOMAIN s}

-----------------------------------------------------------------------------
(* script/config.py                                                        *)

EXPECTED_FEATURES ==
    <<"brokertitle", "type", "beds", "bath", "propertysqft", "sublocality">>

\* PRICE_RANGES, in cents (prices are floats in the code; a cent is the
\* resolution the service rounds to)
PRICE_RANGES ==
    [budget |-> 400000 * 100, mid |-> 1000000 * 100, luxury |-> 2000000 * 100]

-----------------------------------------------------------------------------
(* script/predict.py: pure functions                                       *)

\* predict.py:75 / app.py:145, the list comprehension
\*   [f for f in expected_features if f not in input_data]
MissingFirstOnly(expected_features, input_data) ==
    LET all == SelectSeq(expected_features, LAMBDA f : f \notin DOMAIN input_data)
    IN  IF all = <<>> THEN <<>> ELSE <<all[1]>>

MissingFeatures(expected_features, input_data) ==
    SelectSeq(expected_features, LAMBDA f : f \notin DOMAIN input_data)

\* predict.py:80 alone, without the reordering of line 81: the row keeps every
\* key of the record
PrepareFeaturesNoReorder(input_data, expected_features) ==
    LET missing_features == MissingFeatures(expected_features, input_data)
        keys == SelectSeq(EXPECTED_FEATURES \o <<"zipcode">>,
                          LAMBDA f : f \in DOMAIN input_data)
    IN  IF missing_features # <<>>
        THEN [ok |-> FALSE, exc |-> "ValueError", names |-> missing_features]
        ELSE [ok |-> TRUE,
              row |-> [i \in 1..Len(keys) |-> <<keys[i], input_data[keys[i]]>>]]

\* predict.py:74-83 with expected_features given: a ValueError that carries
\* the whole list, or the single row with the columns in the expected order
PrepareFeatures(input_data, expected_features) ==
    LET missing_features == MissingFeatures(expected_features, input_data)
    IN  IF missing_features # <<>>
        THEN [ok |-> FALSE, exc |-> "ValueError", names |-> missing_features]
        ELSE [ok |-> TRUE,
              row |-> [i \in 1..Len(expected_features) |->
                          <<expected_features[i], input_data[expected_features[i]]>>]]

\* predict.py:71-72: expected_features=None means the configured list
PrepareFeaturesDefault(input_data) ==
    PrepareFeatures(input_data, EXPECTED_FEATURES)

\* app.py:144-147: the handler's own presence check, answered with a 400
FlaskValidate(input_data) ==
    LET missing_features == MissingFeatures(EXPECTED_FEATURES, input_data)
    IN  IF missing_features # <<>>
        THEN [ok |-> FALSE, status |-> 400, names |-> missing_features]
        ELSE [ok |-> TRUE]

\* predict.py:163-172
CategoryInclusiveBudget(price) ==
    IF price <= PRICE_RANGES.budget THEN "Budget-Friendly"
    ELSE IF price < PRICE_RANGES.luxury THEN "Mid-Range"
    ELSE "Luxury"

get_price_category(price) ==
    IF price < PRICE_RANGES.budget THEN "Budget-Friendly"
    ELSE IF price < PRICE_RANGES.luxury THEN "Mid-Range"
    ELSE "Luxury"

-----------------------------------------------------------------------------
(* script/utils.py: FrequencyEncoder                                       *)

\* Bounds of the encoder model
MaxRows == 2        \* rows of a batch handed to fit
MaxTRows == 1       \* rows of a batch handed to transform (the batch fit
                    \* has just returned from can be transformed whole)

NaN == "NaN"                    \* a missing cell (None / numpy.nan)
CatValues == {"A", "B"}         \* category values
EmptyMap == [v \in {} |-> 0]    \* {}
NoNames == <<>>                 \* feature_names_in_ = None

\* A cell of transform's output array: a looked-up count, or the input value
\* left as it was
Num(n) == [num |-> n]
Raw(v) == [raw |-> v]

\* The labels pandas gives the columns of pd.DataFrame(X) for an array X:
\* RangeIndex 0, 1, ... (integers; written here as the strings "0", "1")
RangeLabel(i) == <<"0", "1", "2">>[i + 1]
\* utils.py:31, f'feature_{i}'
FeatureName(i) == <<"feature_0", "feature_1", "feature_2">>[i + 1]

Width(X) == Len(X.cols)
Column(X, j) == [i \in 1..Len(X.rows) |-> X.rows[i][j]]
ColIndex(cols, c) == CHOOSE j \in 1..Len(cols) : cols[j] = c
\* the number of cells of a column that hold v
Occurrences(col, v) == Cardinality({k \in DOMAIN col : col[k] = v})

\* utils.py:35-36, df[col].value_counts().to_dict(): one pass over the column,
\* missing cells dropped (value_counts has dropna=True)
RECURSIVE CountFrom(_, _, _)
CountFrom(col, i, m) ==
    IF i > Len(col) THEN m
    ELSE LET v == col[i]
         IN  CountFrom(col, i + 1,
                 IF v = NaN THEN m
                 ELSE IF v \in DOMAIN m THEN [m EXCEPT ![v] = @ + 1]
                 ELSE m @@ (v :> 1))

ValueCountsOffByOne(col) ==
    LET m == CountFrom(col, 1, EmptyMap)
    IN  [v \in DOMAIN m |-> m[v] - 1]

\* value_counts() of a column of categorical dtype: every category is listed,
\* one that does not occur with count 0
ValueCountsAllCategories(col) ==
    [v \in CatValues |-> Occurrences(col, v)]

ValueCounts(col) == CountFrom(col, 1, EmptyMap)

\* utils.py:11-20
EncoderInit(handle_unknown) ==
    [handle_unknown |-> handle_unknown,
     frequency_maps_ |-> EmptyMap,
     feature_names_in_ |-> NoNames]

\* utils.py:22-38. frequency_maps_ is assigned per column of this batch; the
\* dict is not cleared, so a table of a column of an earlier batch stays.
EncoderFit(e, X) ==
    LET names == IF X.kind = "df" THEN X.cols
                 ELSE [i \in 1..Width(X) |-> FeatureName(i - 1)]
        dfcols == Range(X.cols)
    IN  [e EXCEPT
            !.feature_names_in_ = names,
            !.frequency_maps_ =
                [c \in (DOMAIN e.frequency_maps_) \cup dfcols |->
                    IF c \in dfcols
                    THEN ValueCounts(Column(X, ColIndex(X.cols, c)))
                    ELSE e.frequency_maps_[c]]]

\* utils.py:56-61: the fill value of .fillna()
FillValueAlwaysZero(handle_unknown) == 0

\* utils.py:56-61 with the second branch taken for 'rare' alone
FillValueRareOnly(handle_unknown) == IF handle_unknown = "rare" THEN 1 ELSE 0

FillValue(handle_unknown) == IF handle_unknown = "zero" THEN 0 ELSE 1

\* utils.py:40-63. An array gets the column labels feature_names_in_ (a
\* ValueError of pandas when their number differs from the array's width; the
\* default RangeIndex when feature_names_in_ is None).
TransformCols(e, X) ==
    IF X.kind = "df" THEN X.cols
    ELSE IF e.feature_names_in_ = NoNames THEN X.cols
    ELSE e.feature_names_in_

\* utils.py:40-63 with the rows of the output in reverse order
EncoderTransformReversed(e, X) ==
    LET arr == X.kind = "array"
        dfcols == TransformCols(e, X)
        fill == FillValue(e.handle_unknown)
        n == Len(X.rows)
        cell(i, j) ==
            LET c == dfcols[j]
                v == X.rows[n + 1 - i][j]
            IN  IF c \in DOMAIN e.frequency_maps_
                THEN LET frequency_map == e.frequency_maps_[c]
                     IN  IF v \in DOMAIN frequency_map
                         THEN Num(frequency_map[v]) ELSE Num(fill)
                ELSE Raw(v)
    IN  IF arr /\ e.feature_names_in_ # NoNames
               /\ Len(e.feature_names_in_) # Width(X)
        THEN [ok |-> FALSE, exc |-> "ValueError"]
        ELSE [ok |-> TRUE,
              values |-> [i \in 1..n |-> [j \in 1..Width(X) |-> cell(i, j)]]]

\* utils.py:40-63 with an unseen cell filled from the row above it
\* (.ffill().fillna(fill) instead of .fillna(fill))
EncoderTransformForwardFill(e, X) ==
    LET arr == X.kind = "array"
        dfcols == TransformCols(e, X)
        fill == FillValue(e.handle_unknown)
        seen(i, j) ==
            X.rows[i][j] \in DOMAIN e.frequency_maps_[dfcols[j]]
        cell(i, j) ==
            LET c == dfcols[j]
                v == X.rows[i][j]
            IN  IF c \in DOMAIN e.frequency_maps_
                THEN LET frequency_map == e.frequency_maps_[c]
                         above == {k \in 1..i : seen(k, j)}
                     IN  IF above = {} THEN Num(fill)
                         ELSE Num(frequency_map[
                                  X.rows[CHOOSE k \in above :
                                            \A l \in above : l <= k][j]])
                ELSE Raw(v)
    IN  IF arr /\ e.feature_names_in_ # NoNames
               /\ Len(e.feature_names_in_) # Width(X)
        THEN [ok |-> FALSE, exc |-> "ValueError"]
        ELSE [ok |-> TRUE,
              values |-> [i \in 1..Len(X.rows) |->
                            [j \in 1..Width(X) |-> cell(i, j)]]]

EncoderTransform(e, X) ==
    LET arr == X.kind = "array"
        dfcols == TransformCols(e, X)
        fill == FillValue(e.handle_unknown)
        cell(i, j) ==
            LET c == dfcols[j]
                v == X.rows[i][j]
            IN  IF c \in DOMAIN e.frequency_maps_
                THEN LET frequency_map == e.frequency_maps_[c]
                     IN  IF v \in DOMAIN frequency_map
                         THEN Num(frequency_map[v]) ELSE Num(fill)
                ELSE Raw(v)
    IN  IF arr /\ e.feature_names_in_ # NoNames
               /\ Len(e.feature_names_in_) # Width(X)
        THEN [ok |-> FALSE, exc |-> "ValueError"]
        ELSE [ok |-> TRUE,
              values |-> [i \in 1..Len(X.rows) |->
                            [j \in 1..Width(X) |-> cell(i, j)]]]

\* utils.py:40-63 with the unseen values of the batch entered into the tables
\* under the fill value (frequency_map.setdefault(value, fill))
TransformEffectsRemembersUnseen(e, X) ==
    LET dfcols == TransformCols(e, X)
        fill == FillValue(e.handle_unknown)
        values(c) == {X.rows[i][ColIndex(dfcols, c)] : i \in 1..Len(X.rows)}
    IN  [self |->
            [e EXCEPT !.frequency_maps_ =
                [c \in DOMAIN e.frequency_maps_ |->
                    IF c \in Range(dfcols) /\ Len(dfcols) = Width(X)
                    THEN [v \in (DOMAIN e.frequency_maps_[c]) \cup values(c) |->
                             IF v \in DOMAIN e.frequency_maps_[c]
                             THEN e.frequency_maps_[c][v] ELSE fill]
                    ELSE e.frequency_maps_[c]]],
         X |-> X]

\* What transform leaves behind besides its return value: it assigns no
\* attribute of self, and it writes only to df, which is a copy of a table
\* (utils.py:46) or a new frame over an array (utils.py:48) whose columns are
\* replaced, not written into (utils.py:58, :61)
TransformEffects(e, X) == [self |-> e, X |-> X]

-----------------------------------------------------------------------------
(* SpecEnc: one FrequencyEncoder object                                    *)

\* handle_unknown as given to the constructor; "ignore" stands for any value
\* that is neither 'zero' nor 'rare'
Policies == {"zero", "rare", "ignore"}

DfColumnLists == {<<"brokertitle">>, <<"brokertitle", "type">>}
ArrayColumnLists == {<<RangeLabel(0)>>}

RowsOf(vals, w, maxn) == UNION {[1..n -> [1..w -> vals]] : n \in 0..maxn}

BatchesOf(vals, maxn) ==
    {[kind |-> "df", cols |-> c, rows |-> r] :
        <<c, r>> \in UNION {{c} \X RowsOf(vals, Len(c), maxn) : c \in DfColumnLists}}
    \cup
    {[kind |-> "array", cols |-> c, rows |-> r] :
        <<c, r>> \in UNION {{c} \X RowsOf(vals, Len(c), maxn) : c \in ArrayColumnLists}}

\* train.py:80 drops every row with a missing cell before the pipeline is
\* fitted: a training batch has no missing cell
FitBatches == BatchesOf(CatValues, MaxRows)
\* at serving time a cell may be missing (a JSON null)
TransformBatches == BatchesOf(CatValues \cup {NaN}, MaxTRows)

\* batches of more than one row for transform: the rows may differ, and a
\* cell may be missing
RowBatches == BatchesOf(CatValues \cup {NaN}, MaxTRows + 1)

EncIdle ==
    /\ enc = EncoderInit("zero")
    /\ fitted = [count |-> EmptyMap]
    /\ ecall = [op |-> "none"]

EncInit ==
    /\ enc \in {EncoderInit(h) : h \in Policies}
    /\ fitted = [count |-> EmptyMap]
    /\ ecall = [op |-> "none"]

\* encoder.fit(X); fit may be called again and again. The history records,
\* per column label of X, how many cells of the column held each value.
Fit(X) ==
    /\ ecall.op = "none"
    /\ enc' = EncoderFit(enc, X)
    /\ fitted' = [count |->
                     [c \in (DOMAIN fitted.count) \cup Range(X.cols) |->
                         IF c \in Range(X.cols)
                         THEN [v \in CatValues |->
                                  Occurrences(Column(X, ColIndex(X.cols, c)), v)]
                         ELSE fitted.count[c]]]
    /\ ecall' = [op |-> "fit", X |-> X]
    /\ UNCHANGED <<pcall, svcVars>>

\* encoder.transform(X); arg is the caller's batch as the call leaves it
Transform(X) ==
    /\ ecall.op = "none"
    /\ ecall' = [op |-> "transform", X |-> X, training |-> FALSE,
                 out |-> EncoderTransform(enc, X),
                 arg |-> TransformEffects(enc, X).X]
    /\ enc' = TransformEffects(enc, X).self
    /\ UNCHANGED <<fitted, pcall, svcVars>>

\* encoder.fit(B).transform(B): transform on the batch fit has just returned
\* from (the fit_transform of the pipeline train.py builds)
TransformTraining ==
    /\ ecall.op = "fit"
    /\ ecall' = [op |-> "transform", X |-> ecall.X, training |-> TRUE,
                 out |-> EncoderTransform(enc, ecall.X),
                 arg |-> TransformEffects(enc, ecall.X).X]
    /\ enc' = TransformEffects(enc, ecall.X).self
    /\ UNCHANGED <<fitted, pcall, svcVars>>

\* the orders in which n rows can be handed over
RowOrders(n) ==
    {p \in [1..n -> 1..n] : \A i, j \in 1..n : p[i] = p[j] => i = j}

\* encoder.transform(X[p]) after encoder.transform(X): the rows of the batch
\* just transformed, in the order p (the same order: the call is repeated)
TransformPermuted(p) ==
    /\ ecall.op = "transform" /\ ecall.out.ok
    /\ p \in RowOrders(Len(ecall.X.rows))
    /\ LET Xp == [ecall.X EXCEPT !.rows = [i \in 1..Len(p) |-> ecall.X.rows[p[i]]]]
       IN  /\ ecall' = [op |-> "transform", X |-> Xp, training |-> FALSE,
                        out |-> EncoderTransform(enc, Xp),
                        arg |-> TransformEffects(enc, Xp).X,
                        perm |-> p, before |-> ecall.out]
           /\ enc' = TransformEffects(enc, Xp).self
    /\ UNCHANGED <<fitted, pcall, svcVars>>

\* the caller has taken the result of fit or transform
EncoderReturn ==
    /\ ecall.op # "none"
    /\ ecall' = [op |-> "none"]
    /\ UNCHANGED <<enc, fitted, pcall, svcVars>>

-----------------------------------------------------------------------------
(* The model artifact and the metadata artifact (opaque files)             *)

\* A feature value is a small number; a negative one stands for an ill-typed
\* value, on which the model's predict raises: -1 a ValueError, -2 a TypeError
BadValue == 0 - 1
BadType == 0 - 2

\* The artifact is opaque: its one capability is predict(rows) -> one log-scale
\* score per row. Two artifacts are modelled: "byname" picks its columns by
\* name (the ColumnTransformer pipeline train.py builds), "bypos" reads them
\* by position.
ModelKinds == {"byname", "bypos"}

Weight(f) ==
    CASE f = "brokertitle" -> 1 [] f = "type" -> 2 [] f = "beds" -> 3
      [] f = "bath" -> 1 [] f = "propertysqft" -> 2 [] f = "sublocality" -> 3
      [] OTHER -> 0

PositionWeight(j) == <<3, 1, 2, 3, 1, 2>>[j]

RECURSIVE SumTo(_, _, _)
SumTo(kind, row, j) ==
    IF j = 0 THEN 0
    ELSE SumTo(kind, row, j - 1)
         + row[j][2] * (IF kind = "byname" THEN Weight(row[j][1])
                        ELSE PositionWeight(j))

\* the log-scale score of one row: 12 .. 15
Score(kind, row) == 12 + (SumTo(kind, row, Len(row)) % 4)

RowExc(row) ==
    IF \E j \in 1..Len(row) : row[j][2] = BadValue THEN "ValueError"
    ELSE IF \E j \in 1..Len(row) : row[j][2] = BadType THEN "TypeError"
    ELSE "none"

\* model.predict(df): an exception of the model, or one score per row in row
\* order
ModelPredict(kind, rows) ==
    IF \E i \in 1..Len(rows) : RowExc(rows[i]) # "none"
    THEN LET i == CHOOSE k \in 1..Len(rows) :
                      /\ RowExc(rows[k]) # "none"
                      /\ \A l \in 1..(k - 1) : RowExc(rows[l]) = "none"
         IN  [ok |-> FALSE, exc |-> [type |-> RowExc(rows[i]), origin |-> "model",
                                     names |-> <<>>, cause |-> "none"]]
    ELSE [ok |-> TRUE, out |-> [i \in 1..Len(rows) |-> Score(kind, rows[i])]]

\* numpy.expm1 on the scores 0 .. 16, in cents: round((e^m - 1) * 100)
Expm1Table ==
    <<0, 172, 639, 1909, 5360, 14741, 40243, 109563, 297996, 810208, 2202547,
      5987314, 16275379, 44241239, 120260328, 326901637, 888610952>>
Expm1(m) == Expm1Table[m + 1]

\* The order the features had at training time, when it is not the order of
\* config.EXPECTED_FEATURES
ReorderedFeatures ==
    <<"brokertitle", "type", "bath", "beds", "propertysqft", "sublocality">>

NoKey == <<>>       \* a key the metadata dict does not have

\* The metadata dict, by the kind of artifact:
\*   "deployed"   the served artifact the tests read (data_info.selected_features,
\*                performance.validation_r2 / validation_rmse)
\*   "reordered"  the same, the recorded feature order being the training order
\*   "trained"    what train.py:329-357 writes: model_info, features,
\*                preprocessing, performance.val_r2 / val_rmse / val_mae
\* The performance figures are floats: R2 in millionths, the errors in cents.
MetaKinds == {"deployed", "reordered", "trained"}

\* The metadata files the serving process is started on or given while it
\* runs. predict_price and the routes of app.py never read the recorded
\* feature order (predict.py:99 prepares the row in config order), so the
\* "reordered" artifact serves exactly as the "deployed" one does.
ServedMetaKinds == {"deployed", "trained"}

Metadata(kind) ==
    [model_info |-> [name |-> "XGBoost with Frequency Encoding",
                     created_timestamp |-> "20251025"],
     selected_features |->
         CASE kind = "deployed" -> EXPECTED_FEATURES
           [] kind = "reordered" -> ReorderedFeatures
           [] OTHER -> NoKey,
     validation_keys |-> kind # "trained",
     performance |->
         IF kind # "trained"
         THEN [validation_r2 |-> 812350, validation_rmse |-> 25000050]
         ELSE [val_r2 |-> 812350, val_rmse |-> 25000050, val_mae |-> 12000000]]

\* predict.py:117 and :150,
\*   metadata.get('data_info', {}).get('selected_features', EXPECTED_FEATURES)
SelectedFeatures(metadata) ==
    IF metadata.selected_features = NoKey THEN EXPECTED_FEATURES
    ELSE metadata.selected_features

-----------------------------------------------------------------------------
(* script/predict.py: predict_price and batch_predict, after the load      *)

\* An exception: its Python type, where it was raised, the field names its
\* message carries, and the type of the exception it wraps (__cause__)
Exc(type, origin, names) ==
    [type |-> type, origin |-> origin, names |-> names, cause |-> "none"]
NoExc == Exc("none", "none", <<>>)

\* The outcome of a call: a returned value or a raised exception, with the
\* calls of model.predict it made (each the rows it passed) and the exception
\* the model raised in them, if any (history)
Returned(v, calls) ==
    [kind |-> "return", value |-> v, exc |-> NoExc, calls |-> calls,
     model_exc |-> NoExc]
Raised(e, calls, model_exc) ==
    [kind |-> "raise", value |-> 0, exc |-> e, calls |-> calls,
     model_exc |-> model_exc]
NoCall ==
    [kind |-> "none", value |-> 0, exc |-> NoExc, calls |-> <<>>,
     model_exc |-> NoExc]

\* predict.py:98-110, the model being the one load_model_and_metadata gave.
\* Nothing is caught: an exception of prepare_features or of model.predict
\* leaves predict_price as it is.
PredictPriceModelFirst(model, input_data, use_log_target) ==
    LET present == SelectSeq(EXPECTED_FEATURES, LAMBDA f : f \in DOMAIN input_data)
        rows == <<[j \in 1..Len(present) |-> <<present[j], input_data[present[j]]>>]>>
        log_prediction == ModelPredict(model, rows)
        input_df == PrepareFeaturesDefault(input_data)
    IN  IF ~log_prediction.ok
        THEN Raised(log_prediction.exc, <<rows>>, log_prediction.exc)
        ELSE IF ~input_df.ok
        THEN Raised(Exc(input_df.exc, "validation", input_df.names), <<rows>>, NoExc)
        ELSE Returned(IF use_log_target THEN Expm1(log_prediction.out[1])
                      ELSE log_prediction.out[1],
                      <<rows>>)

\* predict.py:98-110 without the inverse transform of lines 105-106
PredictPriceNoInverse(model, input_data, use_log_target) ==
    LET input_df == PrepareFeaturesDefault(input_data)
    IN  IF ~input_df.ok
        THEN Raised(Exc(input_df.exc, "validation", input_df.names), <<>>, NoExc)
        ELSE LET rows == <<input_df.row>>
                 log_prediction == ModelPredict(model, rows)
             IN  IF ~log_prediction.ok
                 THEN Raised(log_prediction.exc, <<rows>>, log_prediction.exc)
                 ELSE Returned(log_prediction.out[1], <<rows>>)

PredictPriceBody(model, input_data, use_log_target) ==
    LET input_df == PrepareFeaturesDefault(input_data)
    IN  IF ~input_df.ok
        THEN Raised(Exc(input_df.exc, "validation", input_df.names), <<>>, NoExc)
        ELSE LET rows == <<input_df.row>>
                 log_prediction == ModelPredict(model, rows)
             IN  IF ~log_prediction.ok
                 THEN Raised(log_prediction.exc, <<rows>>, log_prediction.exc)
                 ELSE Returned(IF use_log_target THEN Expm1(log_prediction.out[1])
                               ELSE log_prediction.out[1],
                               <<rows>>)

\* predict.py:147-161; data is the batch, one record per row, every record
\* with the columns of the batch. data[expected_features] raises a KeyError
\* that lists the columns the batch lacks.
BatchPredictBody(model, metadata, data) ==
    LET expected_features == SelectedFeatures(metadata)
        columns == IF data = <<>> THEN {} ELSE DOMAIN data[1]
        absent == SelectSeq(expected_features, LAMBDA f : f \notin columns)
    IN  IF absent # <<>>
        THEN Raised(Exc("KeyError", "validation", absent), <<>>, NoExc)
        ELSE LET input_df ==
                     [i \in 1..Len(data) |->
                         [j \in 1..Len(expected_features) |->
                             <<expected_features[j], data[i][expected_features[j]]>>]]
                 log_predictions == ModelPredict(model, input_df)
             IN  IF ~log_predictions.ok
                 THEN Raised(log_predictions.exc, <<input_df>>, log_predictions.exc)
                 ELSE Returned([i \in 1..Len(data) |-> Expm1(log_predictions.out[i])],
                               <<input_df>>)

-----------------------------------------------------------------------------
(* SpecPure: the pure functions on inputs drawn from bounded sets          *)

MaxBatch == 2       \* rows of a batch handed to batch_predict

AllKeys == Range(EXPECTED_FEATURES) \cup {"zipcode"}

\* every record over every subset of the six fields and one foreign field
PureRecords == UNION {[K -> {0, 1}] : K \in SUBSET AllKeys}

\* orders of expected features handed to prepare_features
ExpectedLists == {EXPECTED_FEATURES, ReorderedFeatures, <<"beds", "bath">>}

\* prices in cents: around both thresholds, the prices expm1 yields, and the
\* ends of the range
PriceSamples ==
    {0 - 63, 0, 1}
    \cup {PRICE_RANGES.budget + d : d \in -2..2}
    \cup {PRICE_RANGES.mid + d : d \in -2..2}
    \cup {PRICE_RANGES.luxury + d : d \in -2..2}
    \cup {Expm1(m) : m \in 0..16}

\* well-formed records: the six fields, beds, bath and type varying
ValidRecords ==
    {[f \in Range(EXPECTED_FEATURES) |->
         CASE f = "type" -> t [] f = "beds" -> b [] f = "bath" -> a [] OTHER -> 1] :
        <<t, b, a>> \in {0, 1} \X {0, 1} \X {0, 1}}

ValidBatches == UNION {[1..n -> ValidRecords] : n \in 1..MaxBatch}

\* frames that lack required columns: beds and bath, or beds alone
IncompleteBatches ==
    {[i \in 1..n |-> [f \in K |-> 1]] :
        <<n, K>> \in (1..MaxBatch) \X {Range(EXPECTED_FEATURES) \ {"beds", "bath"},
                                      Range(EXPECTED_FEATURES) \ {"beds"}}}

PureIdle == pcall = [op |-> "none"]

\* prepare_features(input_data, expected_features)
CallPrepareFeatures(input_data, expected_features) ==
    /\ pcall.op = "none"
    /\ pcall' = [op |-> "prepare_features", input |-> input_data,
                 expected |-> expected_features,
                 out |-> PrepareFeatures(input_data, expected_features)]
    /\ UNCHANGED <<encVars, svcVars>>

\* the presence check of POST /predict on a JSON body
CallFlaskValidate(input_data) ==
    /\ pcall.op = "none"
    /\ pcall' = [op |-> "flask_validate", input |-> input_data,
                 expected |-> EXPECTED_FEATURES,
                 out |-> FlaskValidate(input_data)]
    /\ UNCHANGED <<encVars, svcVars>>

\* streamlit_app.py:216-221: the category the dashboard shows with a single
\* prediction, thresholds 500000 and 1500000 (in cents here)
DashboardCategory(predicted_price) ==
    IF predicted_price < 500000 * 100 THEN "Budget-Friendly"
    ELSE IF predicted_price < 1500000 * 100 THEN "Mid-Range"
    ELSE "Luxury"

\* get_price_category(price), as the REST API answers it (app.py:156), and
\* the dashboard's category for the same price
CallGetPriceCategory(price) ==
    /\ pcall.op = "none"
    /\ pcall' = [op |-> "get_price_category", price |-> price,
                 out |-> get_price_category(price),
                 dashboard |-> DashboardCategory(price)]
    /\ UNCHANGED <<encVars, svcVars>>

\* batch_predict(data), and predict_price on each row of data alone, with the
\* same loaded model and metadata
CallBatchPredict(model, metakind, data) ==
    /\ pcall.op = "none"
    /\ pcall' = [op |-> "batch_predict", model |-> model, metakind |-> metakind,
                 data |-> data,
                 out |-> BatchPredictBody(model, Metadata(metakind), data),
                 single |-> [i \in 1..Len(data) |->
                                PredictPriceBody(model, data[i], TRUE)]]
    /\ UNCHANGED <<encVars, svcVars>>

-----------------------------------------------------------------------------
(* Spec: one serving process (flask_app/app.py over script/predict.py)     *)

MaxLoads == 3       \* successful joblib.load calls per artifact file
MaxDeploys == 1     \* times the artifact files are replaced while serving

Main == 0                       \* the thread that imports flask_app/app.py
\* The request threads (app.run(threaded=True)): two, every claim about
\* threads being about one thread or about a pair of them
Workers == {1, 2}
None == 0                       \* Python's None, for an object reference

Missing == "missing"            \* no (readable) file at the path

Resp(status, tag, price, category, error, names) ==
    [status |-> status, tag |-> tag, price |-> price, category |-> category,
     error |-> error, names |-> names, body |-> EmptyMap]
NoResp == Resp(0, "none", 0, "none", "none", <<>>)

\* the sample_data of app.py:256-263, and the records requests carry
SampleData == [f \in Range(EXPECTED_FEATURES) |-> 1]
OtherData == [f \in Range(EXPECTED_FEATURES) |-> IF f = "beds" THEN 0 ELSE 1]
MissingTwo == [f \in Range(EXPECTED_FEATURES) \ {"beds", "bath"} |-> 1]
IllTyped == [f \in Range(EXPECTED_FEATURES) |-> IF f = "beds" THEN BadValue ELSE 1]

\* records handed to predict_price directly
DirectInputs == {OtherData, MissingTwo, IllTyped}

\* request bodies of POST /predict: not JSON, the empty object, records
Bodies ==
    {[json |-> FALSE, data |-> EmptyMap], [json |-> TRUE, data |-> EmptyMap]}
    \cup {[json |-> TRUE, data |-> r] :
            r \in {OtherData, MissingTwo, IllTyped}}

\* a record whose beds value makes the model's predict raise a TypeError
IllTypedOther == [f \in Range(EXPECTED_FEATURES) |-> IF f = "beds" THEN BadType ELSE 1]

\* request bodies of POST /predict, one of each kind the handler tells apart
HandlerBodies == Bodies \cup {[json |-> TRUE, data |-> IllTypedOther]}

\* An entry of the lru_cache: the cached value, and the model load it was
\* computed under (history)
NoEntry == [value |-> 0, m |-> None]

\* key: the tuple cached_predict was called with; hit: the entry it returned
\* from the lru_cache (history); prev: the outcome of the call this one
\* repeats, since: the version of the files when that call began (history)
Thread(pc, op, input) ==
    [pc |-> pc, op |-> op, input |-> input, m |-> None, md |-> None,
     pp |-> NoCall, resp |-> NoResp, key |-> <<>>, hit |-> NoEntry,
     prev |-> NoCall, since |-> 0]

SvcIdle ==
    /\ disk = [model |-> Missing, meta |-> Missing, n |-> 0]
    /\ cache = [_model |-> None, _metadata |-> None]
    /\ heap = [models |-> <<>>, metas |-> <<>>]
    /\ app = [started |-> FALSE, model |-> None, metadata |-> None,
              model_info |-> FALSE]
    /\ th = [t \in {Main} |-> Thread("done", "none", EmptyMap)]
    /\ lru = EmptyMap

\* The process starts importing flask_app/app.py: predict.py:45 has built the
\* empty ModelCache, the main thread is about to run app.py:50.
SvcInit ==
    /\ disk \in [model : {Missing} \cup ModelKinds,
                 meta : {Missing} \cup ServedMetaKinds, n : {0}]
    /\ cache = [_model |-> None, _metadata |-> None]
    /\ heap = [models |-> <<>>, metas |-> <<>>]
    /\ app = [started |-> FALSE, model |-> None, metadata |-> None,
              model_info |-> FALSE]
    /\ th = [t \in {Main} \cup Workers |->
                IF t = Main THEN Thread("ld_check", "startup", EmptyMap)
                ELSE Thread("idle", "none", EmptyMap)]
    /\ lru = EmptyMap

\* the metadata dict behind a reference
MetaOf(ref) == Metadata(heap.metas[ref])

\* Python's round(x / unit): to the nearest multiple, a tie to the even one
RoundHalfEven(x, unit) ==
    LET q == x \div unit
        r == x % unit
    IN  IF 2 * r > unit \/ (2 * r = unit /\ q % 2 = 1) THEN q + 1 ELSE q

\* the ',' grouping of format(n, ',.0f'): the decimal digits of n in groups of
\* three from the right, the leading group first
RECURSIVE ThousandsGroups(_)
ThousandsGroups(n) ==
    IF n < 1000 THEN <<n>>
    ELSE Append(ThousandsGroups(n \div 1000), n % 1000)

\* app.py:155, f"${predicted_price:,.0f}": the dollar sign and the price
\* rounded to whole dollars, grouped by thousands
PriceFormatted(predicted_price) ==
    [symbol |-> "$", groups |-> ThousandsGroups(RoundHalfEven(predicted_price, 100))]

\* app.py:132-172, jsonify({'error': ...}), status: an error response of
\* POST /predict
ErrorResponse(status, error, names) ==
    [Resp(status, "error", 0, "none", error, names) EXCEPT !.body = [error |-> error]]

\* app.py:153-163 without the price_category entry
PredictBodyNoCategory(predicted_price, metadata) ==
    [predicted_price |-> predicted_price,
     price_formatted |-> PriceFormatted(predicted_price),
     model_info |-> metadata.model_info.name,
     features_used |-> metadata.selected_features,
     model_performance |->
         [validation_r2 |-> RoundHalfEven(metadata.performance.validation_r2, 100),
          validation_rmse |-> RoundHalfEven(metadata.performance.validation_rmse, 100)]]

\* app.py:153-163, the response dict of a prediction: R2 rounded to four
\* decimals (ten-thousandths), the RMSE to whole dollars
PredictBody(predicted_price, metadata) ==
    [predicted_price |-> predicted_price,
     price_formatted |-> PriceFormatted(predicted_price),
     price_category |-> get_price_category(predicted_price),
     model_info |-> metadata.model_info.name,
     features_used |-> metadata.selected_features,
     model_performance |->
         [validation_r2 |-> RoundHalfEven(metadata.performance.validation_r2, 100),
          validation_rmse |-> RoundHalfEven(metadata.performance.validation_rmse, 100)]]

\* app.py:152-169 without the except clause of lines 170-172: an exception
\* that is not a ValueError leaves the handler, no response is built
PredictResponseValueErrorOnly(pp, metadata) ==
    IF pp.kind = "return"
    THEN IF metadata.selected_features = NoKey \/ ~metadata.validation_keys
         THEN NoResp
         ELSE [Resp(200, "prediction", pp.value, get_price_category(pp.value),
                    "none", <<>>)
                  EXCEPT !.body = PredictBody(pp.value, metadata)]
    ELSE IF pp.exc.type = "ValueError"
         THEN ErrorResponse(400, "Input validation error", pp.exc.names)
         ELSE NoResp

\* app.py:152-172: the response of POST /predict to the outcome of
\* predict_price; a key the metadata lacks is a KeyError, which the second
\* except clause answers
PredictResponse(pp, metadata) ==
    IF pp.kind = "return"
    THEN IF metadata.selected_features = NoKey \/ ~metadata.validation_keys
         THEN ErrorResponse(500, "Prediction error", <<>>)
         ELSE [Resp(200, "prediction", pp.value, get_price_category(pp.value),
                    "none", <<>>)
                  EXCEPT !.body = PredictBody(pp.value, metadata)]
    ELSE IF pp.exc.type = "ValueError"
         THEN ErrorResponse(400, "Input validation error", pp.exc.names)
         ELSE ErrorResponse(500, "Prediction error", pp.exc.names)

\* app.py:265-277: the response of GET /debug/test-prediction
DebugResponse(pp) ==
    IF pp.kind = "return"
    THEN Resp(200, "prediction", pp.value, "none", "none", <<>>)
    ELSE Resp(500, "error", 0, "none", "error", pp.exc.names)

\* streamlit_app.py:49-56, predict_price_cached: the price, or None after the
\* exception was shown with st.error
DashboardResult(pp) ==
    IF pp.kind = "return"
    THEN Resp(0, "value", pp.value, "none", "none", <<>>)
    ELSE Resp(0, "value_none", 0, "none", "Prediction error", pp.exc.names)

\* predict.py:135, return predict_price(input_data): cached_predict hands on
\* the price or the exception of predict_price
CachedPredictResult(pp) ==
    IF pp.kind = "return"
    THEN Resp(0, "value", pp.value, "none", "none", <<>>)
    ELSE Resp(0, "raise", 0, "none", pp.exc.type, pp.exc.names)

\* the answer of thread t's caller to the outcome pp of predict_price
Answer(t, pp) ==
    CASE th[t].op = "predict" -> PredictResponse(pp, Metadata(heap.metas[app.metadata]))
      [] th[t].op = "debug" -> DebugResponse(pp)
      [] th[t].op = "cached" -> CachedPredictResult(pp)
      [] OTHER -> DashboardResult(pp)

\* app.py:174-197
HealthResponse ==
    IF app.model = None \/ app.metadata = None
    THEN Resp(500, "unhealthy", 0, "none", "Model not loaded", <<>>)
    ELSE IF MetaOf(app.metadata).selected_features = NoKey
         THEN Resp(500, "error", 0, "none", "Internal server error", <<>>)
         ELSE Resp(200, "healthy", 0, "none", "none", <<>>)

\* An exception leaves load_model_and_metadata in thread t: the except clause
\* of the start-up block (app.py:54-56), or predict_price raises it on to
\* its caller's handler
Propagate(t, e) ==
    LET pp == Raised(e, <<>>, NoExc)
    IN  IF th[t].op = "startup"
        THEN /\ app' = [started |-> TRUE, model |-> None, metadata |-> None,
                        model_info |-> FALSE]
             /\ th' = [th EXCEPT ![t].pc = "done"]
        ELSE /\ th' = [th EXCEPT ![t].pc = "done", ![t].pp = pp,
                                  ![t].resp = Answer(t, pp)]
             /\ UNCHANGED app

\* predict.py:29 testing self._model alone
LdCheckModelOnly(t) ==
    /\ th[t].pc = "ld_check"
    /\ th' = [th EXCEPT ![t].pc =
                 IF cache._model = None THEN "ld_model" ELSE "ld_ret"]
    /\ UNCHANGED <<disk, cache, heap, app, pcall, encVars, lru>>

\* predict.py:29, the test of get_model_and_metadata
LdCheck(t) ==
    /\ th[t].pc = "ld_check"
    /\ th' = [th EXCEPT ![t].pc =
                 IF cache._model = None \/ cache._metadata = None
                 THEN "ld_model" ELSE "ld_ret"]
    /\ UNCHANGED <<disk, cache, heap, app, pcall, encVars, lru>>

\* predict.py:37, self._model = joblib.load(MODEL_PATH)
LdModel(t) ==
    /\ th[t].pc = "ld_model"
    /\ IF disk.model = Missing
       THEN /\ Propagate(t, Exc("FileNotFoundError", "load", <<>>))
            /\ UNCHANGED <<disk, cache, heap>>
       ELSE /\ Len(heap.models) < MaxLoads
            /\ heap' = [heap EXCEPT !.models = Append(@, disk.model)]
            /\ cache' = [cache EXCEPT !._model = Len(heap.models) + 1]
            /\ th' = [th EXCEPT ![t].pc = "ld_meta"]
            /\ UNCHANGED <<disk, app>>
    /\ UNCHANGED <<pcall, encVars, lru>>

\* predict.py:38-39, self._metadata = joblib.load(METADATA_PATH)
LdMeta(t) ==
    /\ th[t].pc = "ld_meta"
    /\ IF disk.meta = Missing
       THEN /\ Propagate(t, Exc("FileNotFoundError", "load", <<>>))
            /\ UNCHANGED <<disk, cache, heap>>
       ELSE /\ Len(heap.metas) < MaxLoads
            /\ heap' = [heap EXCEPT !.metas = Append(@, disk.meta)]
            /\ cache' = [cache EXCEPT !._metadata = Len(heap.metas) + 1]
            /\ th' = [th EXCEPT ![t].pc = "ld_ret"]
            /\ UNCHANGED <<disk, app>>
    /\ UNCHANGED <<pcall, encVars, lru>>

\* predict.py:31, return self._model, self._metadata; then the caller goes on
LdRet(t) ==
    /\ th[t].pc = "ld_ret"
    /\ th' = [th EXCEPT ![t].m = cache._model, ![t].md = cache._metadata,
                        ![t].pc = IF th[t].op = "startup" THEN "s_info"
                                  ELSE "pp_body"]
    /\ UNCHANGED <<disk, cache, heap, app, pcall, encVars, lru>>

\* app.py:50-56 with an except clause that resets model_info alone
StartupFinishKeepsModel ==
    /\ th[Main].pc = "s_info"
    /\ app' = [started |-> TRUE, model |-> th[Main].m, metadata |-> th[Main].md,
               model_info |-> MetaOf(cache._metadata).validation_keys]
    /\ th' = [th EXCEPT ![Main].pc = "done"]
    /\ UNCHANGED <<disk, cache, heap, pcall, encVars, lru>>

\* app.py:50-56, after load_model_and_metadata returned: get_model_info()
\* (the cache is full, predict.py:114-124 reads it) and the two log lines;
\* line 53 reads model_info['performance']['validation_r2']. Every exception
\* ends in the except clause, which leaves the three globals None.
StartupFinish ==
    /\ th[Main].pc = "s_info"
    /\ app' = IF MetaOf(cache._metadata).validation_keys
              THEN [started |-> TRUE, model |-> th[Main].m,
                    metadata |-> th[Main].md, model_info |-> TRUE]
              ELSE [started |-> TRUE, model |-> None, metadata |-> None,
                    model_info |-> FALSE]
    /\ th' = [th EXCEPT ![Main].pc = "done"]
    /\ UNCHANGED <<disk, cache, heap, pcall, encVars, lru>>

\* predict.py:96 and :102: the model predict_price calls is its local
\* variable, the object load_model_and_metadata returned to it
LoadedModelFromDisk(t) == disk.model

LoadedModel(t) == heap.models[th[t].m]

\* predict.py:133, the keys cached_predict zips the tuple with
CachedPredictKeys ==
    <<"brokertitle", "type", "beds", "bath", "propertysqft", "sublocality">>

\* predict.py:134, dict(zip(keys, input_tuple)): zip stops at the shorter one
TupleRecord(input_tuple) ==
    LET n == IF Len(input_tuple) < Len(CachedPredictKeys)
             THEN Len(input_tuple) ELSE Len(CachedPredictKeys)
    IN  [f \in {CachedPredictKeys[i] : i \in 1..n} |->
            input_tuple[CHOOSE i \in 1..n : CachedPredictKeys[i] = f]]

\* functools.lru_cache(maxsize=1000) around cached_predict (predict.py:126),
\* after the wrapped call of thread t ended with outcome pp: a returned value
\* is stored under the call's tuple unless another thread has stored one
\* meanwhile; an exception stores nothing. Nothing ever clears the cache.
LruStore(t, pp) ==
    IF th[t].op = "cached" /\ pp.kind = "return" /\ th[t].key \notin DOMAIN lru
    THEN [k \in (DOMAIN lru) \cup {th[t].key} |->
             IF k = th[t].key THEN [value |-> pp.value, m |-> th[t].m]
             ELSE lru[k]]
    ELSE lru

\* predict.py:98-110 in thread t, and the caller's answer to its outcome
PpBody(t) ==
    /\ th[t].pc = "pp_body"
    /\ LET pp == PredictPriceBody(LoadedModel(t), th[t].input, TRUE)
       IN  /\ th' = [th EXCEPT ![t].pc = "done", ![t].pp = pp,
                               ![t].resp = Answer(t, pp)]
           /\ lru' = LruStore(t, pp)
    /\ UNCHANGED <<disk, cache, heap, app, pcall, encVars>>

\* POST /predict, app.py:131-150: up to the call of predict_price
ReqPredict(t, body) ==
    /\ app.started /\ th[t].pc = "idle"
    /\ LET answer(r) == [Thread("done", "predict", EmptyMap) EXCEPT !.resp = r]
           valid == FlaskValidate(body.data)
       IN  th' = [th EXCEPT ![t] =
                IF app.model = None \/ app.metadata = None
                THEN answer(ErrorResponse(500, "Model not loaded", <<>>))
                ELSE IF ~body.json
                THEN answer(ErrorResponse(400, "Request must be JSON", <<>>))
                ELSE IF body.data = EmptyMap
                THEN answer(ErrorResponse(400, "No input data provided", <<>>))
                ELSE IF ~valid.ok
                THEN [Thread("done", "predict", body.data) EXCEPT !.resp =
                         ErrorResponse(valid.status, "Missing required features",
                                       valid.names)]
                ELSE Thread("ld_check", "predict", body.data)]
    /\ UNCHANGED <<disk, cache, heap, app, pcall, encVars, lru>>

\* GET /debug/test-prediction, app.py:252-266 (DEBUG_MODE is True): no test of
\* the globals before predict_price
ReqDebug(t) ==
    /\ app.started /\ th[t].pc = "idle"
    /\ th' = [th EXCEPT ![t] = Thread("ld_check", "debug", SampleData)]
    /\ UNCHANGED <<disk, cache, heap, app, pcall, encVars, lru>>

\* predict_price(input_data) called from inside the process without the
\* handler's checks, as the dashboard's predict_price_cached does
\* (streamlit_app.py:52)
ReqDirect(t, input_data) ==
    /\ app.started /\ th[t].pc = "idle"
    /\ th' = [th EXCEPT ![t] = Thread("ld_check", "direct", input_data)]
    /\ UNCHANGED <<disk, cache, heap, app, pcall, encVars, lru>>

\* GET /health, app.py:174-197
ReqHealth(t) ==
    /\ app.started /\ th[t].pc = "idle"
    /\ th' = [th EXCEPT ![t] =
                 [Thread("done", "health", EmptyMap) EXCEPT !.resp = HealthResponse]]
    /\ UNCHANGED <<disk, cache, heap, app, pcall, encVars, lru>>

\* cached_predict(input_tuple), predict.py:126-135: a hit of the lru_cache
\* returns the stored value without running the body; a miss runs
\* predict_price on the record built from the tuple
CachedTuples == {<<1, 1, 0, 1, 1, 1>>, <<1, 1, 1, 0, 1, 1>>, <<1, 1>>}

ReqCached(t, input_tuple) ==
    /\ app.started /\ th[t].pc = "idle"
    /\ th' = [th EXCEPT ![t] =
                 IF input_tuple \in DOMAIN lru
                 THEN [Thread("done", "cached", TupleRecord(input_tuple)) EXCEPT
                          !.key = input_tuple,
                          !.hit = lru[input_tuple],
                          !.m = cache._model,
                          !.pp = Returned(lru[input_tuple].value, <<>>),
                          !.resp = CachedPredictResult(
                                       Returned(lru[input_tuple].value, <<>>))]
                 ELSE [Thread("ld_check", "cached", TupleRecord(input_tuple))
                          EXCEPT !.key = input_tuple]]
    /\ UNCHANGED <<disk, cache, heap, app, pcall, encVars, lru>>

\* predict_price(input_data) called a first time by a caller that will repeat
\* the call unchanged
DirectCall(t, input_data) ==
    /\ app.started /\ th[t].pc = "idle"
    /\ th' = [th EXCEPT ![t] =
                 [Thread("ld_check", "direct", input_data) EXCEPT !.since = disk.n]]
    /\ UNCHANGED <<disk, cache, heap, app, pcall, encVars, lru>>

\* the caller repeats its call of predict_price with the same input_data
DirectRepeat(t) ==
    /\ th[t].pc = "done" /\ th[t].op = "direct"
    /\ th' = [th EXCEPT ![t] =
                 [Thread("ld_check", "direct", th[t].input) EXCEPT
                     !.since = th[t].since, !.prev = th[t].pp]]
    /\ UNCHANGED <<disk, cache, heap, app, pcall, encVars, lru>>

\* The response has gone out (the direct caller has its result): the thread
\* is free for the next request
Respond(t) ==
    /\ t \in Workers /\ th[t].pc = "done"
    /\ th' = [th EXCEPT ![t] = Thread("idle", "none", EmptyMap)]
    /\ UNCHANGED <<disk, cache, heap, app, pcall, encVars, lru>>

\* The environment replaces the artifact files (a training run, a deployment,
\* a removal)
Deploy(model, meta) ==
    /\ disk.n < MaxDeploys
    /\ <<model, meta>> # <<disk.model, disk.meta>>
    /\ disk' = [model |-> model, meta |-> meta, n |-> disk.n + 1]
    /\ UNCHANGED <<cache, heap, app, th, pcall, encVars, lru>>

-----------------------------------------------------------------------------
(* The specifications                                                      *)

\* predict_price(input_data, use_log_target) with the model load_model_and_metadata
\* returns
CallPredictPrice(model, input_data, use_log_target) ==
    /\ pcall.op = "none"
    /\ pcall' = [op |-> "predict_price", model |-> model, input |-> input_data,
                 use_log_target |-> use_log_target,
                 out |-> PredictPriceBody(model, input_data, use_log_target)]
    /\ UNCHANGED <<encVars, svcVars>>

PureInit == PureIdle /\ EncIdle /\ SvcIdle

PureNext ==
    \/ \E r \in PureRecords, e \in ExpectedLists : CallPrepareFeatures(r, e)
    \/ \E r \in PureRecords : CallFlaskValidate(r)
    \/ \E p \in PriceSamples : CallGetPriceCategory(p)
    \/ \E m \in ModelKinds, k \in MetaKinds, d \in ValidBatches \cup IncompleteBatches :
          CallBatchPredict(m, k, d)
    \/ \E m \in ModelKinds, r \in ValidRecords \cup {MissingTwo, IllTyped},
          u \in BOOLEAN : CallPredictPrice(m, r, u)

SpecPure == PureInit /\ [][PureNext]_vars

EncoderInitial == PureIdle /\ EncInit /\ SvcIdle

EncNext ==
    \/ \E X \in FitBatches : Fit(X)
    \/ \E X \in TransformBatches : Transform(X)
    \/ TransformTraining
    \/ EncoderReturn

SpecEnc == EncoderInitial /\ [][EncNext]_vars

\* One encoder fitted on named-column tables, transforming batches of several
\* rows
RowsNext ==
    \/ \E X \in {B \in FitBatches : B.kind = "df"} : Fit(X)
    \/ \E X \in RowBatches : Transform(X)
    \/ EncoderReturn

SpecRows == EncoderInitial /\ [][RowsNext]_vars

\* One encoder fitted on one named column, transforming batches of several
\* rows and then the same rows in another order
PermNext ==
    \/ \E X \in {B \in FitBatches : B.cols = <<"brokertitle">>} : Fit(X)
    \/ \E X \in RowBatches : Transform(X)
    \/ \E p \in UNION {RowOrders(n) : n \in 0..(MaxTRows + 1)} : TransformPermuted(p)
    \/ EncoderReturn

SpecPerm == EncoderInitial /\ [][PermNext]_vars

Init == PureIdle /\ EncIdle /\ SvcInit

Next ==
    \/ \E t \in {Main} \cup Workers : LdCheck(t)
    \/ \E t \in {Main} \cup Workers : LdModel(t)
    \/ \E t \in {Main} \cup Workers : LdMeta(t)
    \/ \E t \in {Main} \cup Workers : LdRet(t)
    \/ StartupFinish
    \/ \E t \in Workers : PpBody(t)
    \/ \E t \in Workers, b \in Bodies : ReqPredict(t, b)
    \/ \E t \in Workers : ReqDebug(t)
    \/ \E t \in Workers, r \in DirectInputs : ReqDirect(t, r)
    \/ \E t \in Workers : ReqHealth(t)
    \/ \E t \in Workers : Respond(t)
    \/ \E m \in {Missing} \cup ModelKinds, k \in {Missing} \cup ServedMetaKinds : Deploy(m, k)

Spec == Init /\ [][Next]_vars

\* The REST service answering POST /predict and GET /health
HandlerNext ==
    \/ \E t \in {Main} \cup Workers : LdCheck(t)
    \/ \E t \in {Main} \cup Workers : LdModel(t)
    \/ \E t \in {Main} \cup Workers : LdMeta(t)
    \/ \E t \in {Main} \cup Workers : LdRet(t)
    \/ StartupFinish
    \/ \E t \in Workers : PpBody(t)
    \/ \E t \in Workers, b \in HandlerBodies : ReqPredict(t, b)
    \/ \E t \in Workers : ReqHealth(t)
    \/ \E t \in Workers : Respond(t)
    \/ \E m \in {Missing} \cup ModelKinds, k \in {Missing} \cup ServedMetaKinds : Deploy(m, k)

SpecHandler == Init /\ [][HandlerNext]_vars

\* The process with callers of predict_price that pass through
\* load_model_and_metadata whatever the start-up left (the debug route)
LoadNext ==
    \/ \E t \in {Main} \cup Workers : LdCheck(t)
    \/ \E t \in {Main} \cup Workers : LdModel(t)
    \/ \E t \in {Main} \cup Workers : LdMeta(t)
    \/ \E t \in {Main} \cup Workers : LdRet(t)
    \/ StartupFinish
    \/ \E t \in Workers : PpBody(t)
    \/ \E t \in Workers : ReqDebug(t)
    \/ \E t \in Workers : Respond(t)
    \/ \E m \in {Missing} \cup ModelKinds, k \in {Missing} \cup ServedMetaKinds : Deploy(m, k)

SpecLoad == Init /\ [][LoadNext]_vars

\* The process with callers of cached_predict
CacheNext ==
    \/ \E t \in {Main} \cup Workers : LdCheck(t)
    \/ \E t \in {Main} \cup Workers : LdModel(t)
    \/ \E t \in {Main} \cup Workers : LdMeta(t)
    \/ \E t \in {Main} \cup Workers : LdRet(t)
    \/ StartupFinish
    \/ \E t \in Workers : PpBody(t)
    \/ \E t \in Workers, k \in CachedTuples : ReqCached(t, k)
    \/ \E t \in Workers : Respond(t)
    \/ \E m \in {Missing} \cup ModelKinds, k \in {Missing} \cup ServedMetaKinds : Deploy(m, k)

SpecCache == Init /\ [][CacheNext]_vars

\* The process with callers that repeat their calls of predict_price
RetryNext ==
    \/ \E t \in {Main} \cup Workers : LdCheck(t)
    \/ \E t \in {Main} \cup Workers : LdModel(t)
    \/ \E t \in {Main} \cup Workers : LdMeta(t)
    \/ \E t \in {Main} \cup Workers : LdRet(t)
    \/ StartupFinish
    \/ \E t \in Workers : PpBody(t)
    \/ \E t \in Workers, r \in DirectInputs : DirectCall(t, r)
    \/ \E t \in Workers : DirectRepeat(t)
    \/ \E t \in Workers : Respond(t)
    \/ \E m \in {Missing} \cup ModelKinds, k \in {Missing} \cup ServedMetaKinds : Deploy(m, k)

SpecRetry == Init /\ [][RetryNext]_vars

-----------------------------------------------------------------------------
(* Claims                                                                  *)

Required == Range(EXPECTED_FEATURES)

\* C1 (SpecPure): validation of a record against a list of expected fields
\* fails exactly when an expected field is absent from the record, and the
\* error then names every absent field, each once; it succeeds when none is
\* absent. Both validations are covered: prepare_features and the presence
\* check of POST /predict.
C1_ValidationNamesEveryMissingField ==
    pcall.op \in {"prepare_features", "flask_validate"} =>
        LET absent == {f \in Range(pcall.expected) : f \notin DOMAIN pcall.input}
        IN  /\ pcall.out.ok <=> absent = {}
            /\ ~pcall.out.ok =>
                  /\ Range(pcall.out.names) = absent
                  /\ Len(pcall.out.names) = Cardinality(absent)

\* a record without bath and beds was validated and the error names both
C1_Witness ==
    /\ pcall.op = "prepare_features"
    /\ pcall.expected = EXPECTED_FEATURES
    /\ DOMAIN pcall.input = Required \ {"bath", "beds"}
    /\ ~pcall.out.ok
    /\ Range(pcall.out.names) = {"bath", "beds"}

\* C2 (Spec): a record with a missing required field is rejected before the
\* model's predict is called: whenever a request for such a record has ended,
\* in predict_price or in the /predict handler, it ended in an error and no
\* call of model.predict was made for it.
C2_NoModelCallOnInvalidRecord ==
    \A t \in Workers :
        (th[t].op \in {"predict", "direct"} /\ th[t].pc = "done"
            /\ th[t].input # EmptyMap /\ ~(Required \subseteq DOMAIN th[t].input))
        => /\ th[t].pp.calls = <<>>
           /\ th[t].resp.tag \in {"error", "value_none"}

\* predict_price itself refused a record without beds and bath
C2_Witness ==
    \E t \in Workers :
        /\ th[t].op = "direct" /\ th[t].pc = "done"
        /\ th[t].input = MissingTwo
        /\ th[t].pp.kind = "raise" /\ th[t].pp.exc.origin = "validation"
        /\ th[t].m # None

\* C3 (SpecEnc): for every cell of a transform input that lies in a column
\* the encoder holds a table for: the output cell is n when the cell's value
\* occurred n >= 1 times in that column in the batch the column was fitted on,
\* 0 when it did not occur there and the policy is 'zero', 1 when it did not
\* occur and the policy is 'rare'.
C3_TransformYieldsFitTimeCount ==
    (ecall.op = "transform" /\ ecall.out.ok) =>
        \A i \in 1..Len(ecall.X.rows), j \in 1..Width(ecall.X) :
            LET c == TransformCols(enc, ecall.X)[j]
                v == ecall.X.rows[i][j]
                out == ecall.out.values[i][j]
            IN  c \in DOMAIN fitted.count =>
                    LET n == IF v \in CatValues THEN fitted.count[c][v] ELSE 0
                    IN  /\ n >= 1 => out = Num(n)
                        /\ (n = 0 /\ enc.handle_unknown = "zero") => out = Num(0)
                        /\ (n = 0 /\ enc.handle_unknown = "rare") => out = Num(1)

\* a value seen twice at fit time was transformed to 2, and an unseen one to 0
\* under 'zero'
C3_Witness ==
    /\ ecall.op = "transform" /\ ecall.out.ok
    /\ enc.handle_unknown = "zero"
    /\ ecall.X.kind = "df" /\ ecall.X.cols = <<"brokertitle", "type">>
    /\ Len(ecall.X.rows) = 1
    /\ ecall.out.values[1] = <<Num(2), Num(0)>>
    /\ ecall.X.rows[1] = <<"A", "B">>
    /\ fitted.count["brokertitle"]["A"] = 2
    /\ fitted.count["type"]["B"] = 0

\* C4 (SpecEnc): round trip over the training set: fit(B) followed by
\* transform(B), B a table with named columns, yields for each row and each
\* column exactly the number of rows of B that carry the same value in that
\* column.
C4_RoundTripReproducesCounts ==
    (ecall.op = "transform" /\ ecall.training /\ ecall.X.kind = "df") =>
        /\ ecall.out.ok
        /\ Len(ecall.out.values) = Len(ecall.X.rows)
        /\ \A i \in 1..Len(ecall.X.rows), j \in 1..Width(ecall.X) :
              ecall.out.values[i][j] =
                  Num(Occurrences(Column(ecall.X, j), ecall.X.rows[i][j]))

\* a training batch of two rows with a repeated and a single value went
\* through fit and transform
C4_Witness ==
    /\ ecall.op = "transform" /\ ecall.training /\ ecall.X.kind = "df"
    /\ ecall.X.rows = << <<"A", "A">>, <<"A", "B">> >>
    /\ ecall.out.values = << <<Num(2), Num(1)>>, <<Num(2), Num(1)>> >>

\* C5 (SpecPure): batch_predict on a multi-row input of well-formed rows
\* returns one price per row in row order, the i-th being the price
\* predict_price returns for row i alone under the same model and metadata.
C5_BatchEqualsSingle ==
    (pcall.op = "batch_predict" /\ Len(pcall.data) >= 2
        /\ pcall.data \in ValidBatches) =>
        /\ pcall.out.kind = "return"
        /\ Len(pcall.out.value) = Len(pcall.data)
        /\ \A i \in 1..Len(pcall.data) :
              /\ pcall.single[i].kind = "return"
              /\ pcall.out.value[i] = pcall.single[i].value

\* C6 (SpecPure): get_price_category returns Budget-Friendly iff the price is
\* below the budget threshold, Luxury iff it is at or above the luxury
\* threshold, Mid-Range otherwise, and no other label.
C6_CategoryByThresholds ==
    pcall.op = "get_price_category" =>
        /\ pcall.out \in {"Budget-Friendly", "Mid-Range", "Luxury"}
        /\ pcall.out = "Budget-Friendly" <=> pcall.price < 400000 * 100
        /\ pcall.out = "Luxury" <=> pcall.price >= 2000000 * 100
        /\ pcall.out = "Mid-Range" <=>
              (pcall.price >= 400000 * 100 /\ pcall.price < 2000000 * 100)

\* the price equal to the budget threshold was classified Mid-Range
C6_Witness ==
    /\ pcall.op = "get_price_category"
    /\ pcall.price = PRICE_RANGES.budget
    /\ pcall.out = "Mid-Range"

C8_LoadedOnceSameObjects ==
    /\ Len(heap.models) <= 1
    /\ Len(heap.metas) <= 1
    /\ \A t1, t2 \in {Main} \cup Workers :
          (th[t1].m # None /\ th[t2].m # None)
          => (th[t1].m = th[t2].m /\ th[t1].md = th[t2].md)

\* the start-up block of the REST service ended in its except clause
StartupFailed == app.started /\ app.model = None

\* C9 (Spec): if loading fails at start-up of the REST service, then in every
\* later state no endpoint has answered with a predicted price, and the health
\* endpoint has answered unhealthy.
C9_NoPredictionAfterFailedStartup ==
    StartupFailed =>
        \A t \in Workers :
            /\ th[t].op \in {"predict", "debug"} => th[t].resp.tag # "prediction"
            /\ (th[t].op = "health" /\ th[t].pc = "done")
                  => th[t].resp.tag = "unhealthy"

\* C10 (Spec): whenever the model's predict raises during
\* predict_price, predict_price fails with an InferenceError that wraps the
\* model's exception.
C10_InferenceErrorWraps ==
    \A t \in Workers :
        th[t].pp.model_exc # NoExc =>
            /\ th[t].pp.kind = "raise"
            /\ th[t].pp.exc.type = "InferenceError"
            /\ th[t].pp.exc.cause = th[t].pp.model_exc.type

\* C11 (SpecPure): for every record that contains all expected fields,
\* prepare_features returns a single row whose columns are exactly the
\* expected fields in the expected order, each carrying the record's value for
\* that field; the record's other fields are dropped without error.
C11_RowIsExpectedFieldsInOrder ==
    (pcall.op = "prepare_features"
        /\ Range(pcall.expected) \subseteq DOMAIN pcall.input) =>
        /\ pcall.out.ok
        /\ Len(pcall.out.row) = Len(pcall.expected)
        /\ \A i \in 1..Len(pcall.expected) :
              /\ pcall.out.row[i][1] = pcall.expected[i]
              /\ pcall.out.row[i][2] = pcall.input[pcall.expected[i]]

\* a record with the six fields and a foreign one, beds and bath differing,
\* was prepared for the training order
C11_Witness ==
    /\ pcall.op = "prepare_features"
    /\ pcall.expected = ReorderedFeatures
    /\ DOMAIN pcall.input = AllKeys
    /\ pcall.input["beds"] = 0 /\ pcall.input["bath"] = 1
    /\ pcall.out.ok
    /\ pcall.out.row[3] = <<"bath", 1>> /\ pcall.out.row[4] = <<"beds", 0>>

\* C12 (SpecEnc): transform called on an encoder on which fit was never
\* called raises an error for every input; it never returns a result.
C12_TransformBeforeFitFails ==
    (ecall.op = "transform" /\ DOMAIN fitted.count = {}) => ~ecall.out.ok

\* C13 (SpecEnc): re-fitting overwrites prior tables: whenever fit(B) has
\* returned, whatever was fitted before, the encoder's frequency tables equal
\* the tables of a fresh encoder after fit(B) alone.
C13_RefitOverwritesTables ==
    ecall.op = "fit" =>
        enc.frequency_maps_ =
            EncoderFit(EncoderInit(enc.handle_unknown), ecall.X).frequency_maps_

\* C14 (SpecCache): the result cache is transparent and version-safe: every
\* entry is the price predict_price returns for the record of the entry's
\* exact tuple under the model load the entry was computed with, and whenever
\* cached_predict has answered from the cache, the entry was computed under
\* the model that was loaded at that moment (no entry of an earlier model load
\* is returned after a new load), and so is that model's price for the record.
C14_CacheTransparentVersionSafe ==
    /\ \A k \in DOMAIN lru :
          LET pp == PredictPriceBody(heap.models[lru[k].m], TupleRecord(k), TRUE)
          IN  pp.kind = "return" /\ lru[k].value = pp.value
    /\ \A t \in Workers :
          (th[t].pc = "done" /\ th[t].op = "cached" /\ th[t].hit # NoEntry) =>
              /\ th[t].hit.m = th[t].m
              /\ th[t].pp.value =
                    PredictPriceBody(heap.models[th[t].m], th[t].input, TRUE).value

\* C15 (SpecRetry): failures are deterministic: a call of predict_price and
\* its repetition with the same record, the artifact files on disk being the
\* same from the beginning of the first call to the end of the repetition,
\* have the same outcome: both return the same price or both fail; a call
\* that failed does not succeed when repeated unchanged.
C15_RepetitionSameOutcome ==
    \A t \in Workers :
        (/\ th[t].pc = "done" /\ th[t].op = "direct"
         /\ th[t].prev # NoCall
         /\ disk.n = th[t].since)
        => /\ th[t].pp.kind = th[t].prev.kind
           /\ th[t].pp.value = th[t].prev.value

\* the start-up block got its model and metadata, the metadata being the
\* record train.py's save_model writes
StartedOnTrainedArtifact ==
    /\ th[Main].pc = "done" /\ th[Main].md # None
    /\ heap.metas[th[Main].md] = "trained"

\* C16 (Spec): the metadata record save_model writes has every field the
\* serving code reads: a service started on a freshly trained artifact has its
\* model, answers /health with healthy and answers a /predict request that
\* carries a well-formed record with a 200.
C16_TrainedArtifactServes ==
    StartedOnTrainedArtifact =>
        /\ app.model # None /\ app.metadata # None
        /\ \A t \in Workers :
              /\ (th[t].pc = "done" /\ th[t].op = "health")
                    => th[t].resp.tag = "healthy"
              /\ (th[t].pc = "done" /\ th[t].op = "predict"
                     /\ th[t].input = OtherData)
                    => th[t].resp.status = 200

\* C17 (SpecPure): for every predicted price, the category the dashboard
\* displays with a single prediction equals the category the REST API returns
\* for that price, the result of get_price_category.
C17_DashboardCategoryEqualsApi ==
    pcall.op = "get_price_category" => pcall.dashboard = pcall.out

\* C18 (SpecPure): batch_predict has the failure contract of predict_price:
\* on a frame that lacks required columns it fails with the missing-feature
\* error of prepare_features (a ValueError), which names every missing column,
\* and no call of the model has been made.
C18_BatchMissingFeatureError ==
    (pcall.op = "batch_predict"
        /\ ~(Range(EXPECTED_FEATURES) \subseteq DOMAIN pcall.data[1])) =>
        /\ pcall.out.kind = "raise"
        /\ pcall.out.exc.type = "ValueError"
        /\ Range(pcall.out.exc.names) =
              Range(EXPECTED_FEATURES) \ DOMAIN pcall.data[1]
        /\ pcall.out.calls = <<>>
        /\ \A i \in 1..Len(pcall.data) : pcall.out.exc = pcall.single[i].exc

\* p is exp(m) - 1 in cents: the table's entry for m, which is 0 for m = 0 and
\* otherwise, with the unit added back, e times the entry before it (e between
\* 2.718 and 2.719)
IsExpm1(m, p) ==
    /\ p = Expm1(m)
    /\ m = 0 => p = 0
    /\ m > 0 =>
          LET before == (Expm1(m - 1) + 100) \div 1000
          IN  /\ 2718 * before <= p + 100
              /\ p + 100 <= 2719 * (before + 1)

\* C19 (SpecPure): whenever predict_price returns, it has made exactly one
\* call of model.predict, on the one prepared row, and with m the first
\* element of that call's output it returns exp(m) - 1 when use_log_target is
\* true and m unchanged when it is false; no call of predict_price makes more
\* than one call of the model.
C19_InverseLogTransform ==
    pcall.op = "predict_price" =>
        /\ Len(pcall.out.calls) <= 1
        /\ pcall.out.kind = "return" =>
              /\ Len(pcall.out.calls) = 1
              /\ Len(pcall.out.calls[1]) = 1
              /\ LET m == ModelPredict(pcall.model, pcall.out.calls[1]).out[1]
                 IN  IF pcall.use_log_target
                     THEN IsExpm1(m, pcall.out.value)
                     ELSE pcall.out.value = m

\* predict_price returned 442412.39 for a model output of 13
C19_Witness ==
    /\ pcall.op = "predict_price" /\ pcall.use_log_target
    /\ pcall.out.kind = "return"
    /\ ModelPredict(pcall.model, pcall.out.calls[1]).out[1] = 13
    /\ pcall.out.value = 44241239


\* C20 (Spec): predict_price called on a record that has all six required
\* fields never fails in validation, whatever the record's values; and
\* whenever the model's predict raises for such a record during POST /predict,
\* the response is the prediction failure (500, "Prediction error"), never
\* the input-validation failure (400, "Input validation error").
C20_IllTypedIsInferenceFailure ==
    \A t \in Workers :
        (th[t].pp.kind # "none" /\ Required \subseteq DOMAIN th[t].input) =>
            /\ th[t].pp.exc.origin # "validation"
            /\ (th[t].op = "predict" /\ th[t].pp.model_exc # NoExc) =>
                  /\ th[t].resp.status = 500
                  /\ th[t].resp.error = "Prediction error"


\* the number a sequence of thousands groups writes
RECURSIVE GroupsValue(_)
GroupsValue(groups) ==
    IF Len(groups) = 0 THEN 0
    ELSE 1000 * GroupsValue(SubSeq(groups, 1, Len(groups) - 1)) + groups[Len(groups)]

Distance(a, b) == IF a < b THEN b - a ELSE a - b

\* C21 (Spec): every response of POST /predict with status 200 follows a
\* returned predict_price and carries the predicted price, the price as a
\* currency string (the dollar sign and the price to the nearest dollar in
\* groups of three digits), a category that is one of Budget-Friendly,
\* Mid-Range, Luxury, the model name of the loaded metadata, and the
\* metadata's validation_r2 and validation_rmse to the echoed precision.
C21_OkResponseIsComplete ==
    \A t \in Workers :
        (th[t].op = "predict" /\ th[t].resp.status = 200) =>
            LET body == th[t].resp.body
                md == MetaOf(app.metadata)
            IN  /\ th[t].pp.kind = "return"
                /\ {"predicted_price", "price_formatted", "price_category",
                    "model_info", "model_performance"} \subseteq DOMAIN body
                /\ body.predicted_price = th[t].pp.value
                /\ body.price_formatted.symbol = "$"
                /\ \A i \in 2..Len(body.price_formatted.groups) :
                      body.price_formatted.groups[i] \in 0..999
                /\ Distance(100 * GroupsValue(body.price_formatted.groups),
                            th[t].pp.value) <= 50
                /\ body.price_category \in {"Budget-Friendly", "Mid-Range", "Luxury"}
                /\ body.model_info = md.model_info.name
                /\ DOMAIN body.model_performance =
                      {"validation_r2", "validation_rmse"}
                /\ Distance(100 * body.model_performance.validation_r2,
                            md.performance.validation_r2) <= 50
                /\ Distance(100 * body.model_performance.validation_rmse,
                            md.performance.validation_rmse) <= 50

\* POST /predict answered 200 with the price $442,412 (442412.39), Mid-Range
C21_Witness ==
    \E t \in Workers :
        /\ th[t].op = "predict" /\ th[t].pc = "done" /\ th[t].resp.status = 200
        /\ th[t].resp.body.price_formatted.groups = <<442, 412>>
        /\ th[t].resp.body.price_category = "Mid-Range"


\* the count a value had in column c at the last fit of that column, by the
\* history; 0 for a missing cell
FittedCount(c, v) == IF v \in CatValues THEN fitted.count[c][v] ELSE 0

\* the cells transform can make of the value v in a column labelled c: v
\* itself, its count at fit time, or the fill value when it was not seen
CellImages(c, v) ==
    {Raw(v)} \cup
    (IF c \notin DOMAIN fitted.count THEN {}
     ELSE IF FittedCount(c, v) > 0 THEN {Num(FittedCount(c, v))}
     ELSE {Num(0), Num(1)})

\* C22 (SpecRows): whenever transform is given a batch that contains every
\* fitted column, it returns an array with one row per row of the batch and
\* one column per column of the batch, and the cell in row i, column j of the
\* array is made of the cell in row i, column j of the batch.
C22_OutputShapeAndOrder ==
    (ecall.op = "transform"
        /\ DOMAIN enc.frequency_maps_ # {}
        /\ DOMAIN enc.frequency_maps_ \subseteq Range(ecall.X.cols)) =>
        /\ ecall.out.ok
        /\ Len(ecall.out.values) = Len(ecall.X.rows)
        /\ \A i \in 1..Len(ecall.X.rows) :
              /\ Len(ecall.out.values[i]) = Width(ecall.X)
              /\ \A j \in 1..Width(ecall.X) :
                    ecall.out.values[i][j]
                        \in CellImages(ecall.X.cols[j], ecall.X.rows[i][j])

\* a batch of two rows and two columns whose four cells are encoded
\* differently: seen and unseen values in one column, the values left as they
\* were in the other
C22_Witness ==
    /\ ecall.op = "transform" /\ ecall.X.kind = "df"
    /\ DOMAIN enc.frequency_maps_ = {"brokertitle"}
    /\ ecall.X.cols = <<"brokertitle", "type">>
    /\ ecall.X.rows = <<<<"A", "B">>, <<"B", "A">>>>
    /\ ecall.out.ok
    /\ ecall.out.values = <<<<Num(2), Raw("B")>>, <<Num(0), Raw("A")>>>>


\* C23 (SpecPerm): whenever a batch has been transformed and its rows are
\* then transformed again in any order (the same order included), the second
\* output is made of the rows of the first output in that order.
C23_PermutationCommutes ==
    (ecall.op = "transform" /\ "perm" \in DOMAIN ecall) =>
        /\ ecall.out.ok
        /\ ecall.out.values =
              [i \in 1..Len(ecall.perm) |-> ecall.before.values[ecall.perm[i]]]

\* a two-row batch with a seen and an unseen value was transformed, then its
\* rows in the opposite order: the outputs are each other's reverse and differ
C23_Witness ==
    /\ ecall.op = "transform" /\ "perm" \in DOMAIN ecall
    /\ ecall.perm = <<2, 1>>
    /\ ecall.X.cols = <<"brokertitle">>
    /\ ecall.before.values = <<<<Num(2)>>, <<Num(1)>>>>
    /\ ecall.out.values = <<<<Num(1)>>, <<Num(2)>>>>


C25_ArrayEncodedLikeTable ==
    (ecall.op = "transform" /\ ecall.X.kind = "array"
        /\ enc.feature_names_in_ = [j \in 1..Width(ecall.X) |-> FeatureName(j - 1)]) =>
        /\ ecall.out.ok
        /\ \A i \in 1..Len(ecall.X.rows), j \in 1..Width(ecall.X) :
              LET n == FittedCount(RangeLabel(j - 1), ecall.X.rows[i][j])
              IN  ecall.out.values[i][j] =
                      Num(IF n > 0 THEN n ELSE FillValue(enc.handle_unknown))


GlobalsLoaded == app.model # None /\ app.metadata # None /\ app.model_info
GlobalsAbsent == app.model = None /\ app.metadata = None /\ ~app.model_info

\* C27 (SpecHandler): once the start-up block of the REST service has ended, model,
\* metadata and model_info are all loaded or all absent and no step changes
\* them; every answer of /health is healthy exactly when they are loaded and
\* every answer of POST /predict is 'Model not loaded' exactly when they are
\* absent.
C27_GlobalsAllOrNone ==
    /\ [](app.started =>
            /\ GlobalsLoaded \/ GlobalsAbsent
            /\ \A t \in Workers :
                  /\ (th[t].op = "health" /\ th[t].pc = "done") =>
                        (th[t].resp.tag = "healthy" <=> GlobalsLoaded)
                  /\ (th[t].op = "predict" /\ th[t].pc = "done") =>
                        (th[t].resp.error = "Model not loaded" <=> GlobalsAbsent))
    /\ [][app.started => app' = app]_vars

\* /health has answered healthy while POST /predict has answered a price
C27_Witness ==
    \E t, u \in Workers :
        /\ th[t].op = "health" /\ th[t].pc = "done"
        /\ th[t].resp.tag = "healthy" /\ th[t].resp.status = 200
        /\ th[u].op = "predict" /\ th[u].pc = "done"
        /\ th[u].resp.status = 200


\* C28 (SpecLoad): whenever get_model_and_metadata has returned to a thread, the
\* pair it returned has a model and a metadata, whatever loads failed or ran
\* concurrently before; and whatever happened before, a call that finds a
\* member of the cache missing loads again, and each of its two loads
\* succeeds when the file is there.
C28_ReturnedPairIsComplete ==
    /\ [](\A t \in {Main} \cup Workers :
            th[t].pc \in {"s_info", "pp_body"} =>
                (th[t].m # None /\ th[t].md # None))
    /\ [][\A t \in {Main} \cup Workers :
             /\ (LdCheck(t) /\ (cache._model = None \/ cache._metadata = None))
                   => th'[t].pc = "ld_model"
             /\ (LdModel(t) /\ disk.model # Missing)
                   => (th'[t].pc = "ld_meta" /\ cache'._model # None)
             /\ (LdMeta(t) /\ disk.meta # Missing)
                   => (th'[t].pc = "ld_ret" /\ cache'._metadata # None)]_vars

\* start-up failed on a missing metadata file after the model had been
\* loaded; a later call has loaded both files and got a complete pair
C28_Witness ==
    \E t \in Workers :
        /\ StartupFailed
        /\ th[t].pc = "pp_body"
        /\ th[t].m # None /\ th[t].md # None
        /\ Len(heap.models) >= 2 /\ Len(heap.metas) = 1


\* C29 (SpecEnc): an encoder constructed with a handle_unknown other than
\* 'zero', 'rare' or not, is fitted and transforms like any other: transform
\* succeeds on every table and on every array of the fitted width, and in a
\* column that has a table it writes 1 for every value that did not occur in
\* the column when it was fitted.
C29_PolicyIsZeroOrNot ==
    (enc.handle_unknown # "zero" /\ ecall.op = "transform"
        /\ (ecall.X.kind = "df" \/ enc.feature_names_in_ = NoNames
               \/ Len(enc.feature_names_in_) = Width(ecall.X))) =>
        /\ ecall.out.ok
        /\ \A i \in 1..Len(ecall.X.rows), j \in 1..Width(ecall.X) :
              LET c == TransformCols(enc, ecall.X)[j]
              IN  (c \in DOMAIN fitted.count
                      /\ FittedCount(c, ecall.X.rows[i][j]) = 0) =>
                      ecall.out.values[i][j] = Num(1)

\* an encoder built with a policy that is neither 'zero' nor 'rare' was
\* fitted and has transformed an unseen value to 1
C29_Witness ==
    /\ enc.handle_unknown = "ignore"
    /\ ecall.op = "transform" /\ ecall.out.ok
    /\ ecall.X.kind = "df" /\ ecall.X.cols = <<"brokertitle">>
    /\ ecall.X.rows = <<<<"A">>>>
    /\ "brokertitle" \in DOMAIN fitted.count
    /\ fitted.count["brokertitle"]["A"] = 0
    /\ fitted.count["brokertitle"]["B"] = 2
    /\ ecall.out.values = <<<<Num(1)>>>>


\* the sum of the counts of a frequency table
RECURSIVE TableSum(_)
TableSum(m) ==
    IF DOMAIN m = {} THEN 0
    ELSE LET v == CHOOSE x \in DOMAIN m : TRUE
         IN  m[v] + TableSum([x \in (DOMAIN m) \ {v} |-> m[x]])

\* C30 (SpecEnc): when fit has returned from a batch without missing cells,
\* every count in every frequency table of the encoder is an integer >= 1,
\* and for each column of the batch the keys of its table are exactly the
\* values that occur in the column and its counts sum to the number of rows.
C30_TableInvariants ==
    ecall.op = "fit" =>
        /\ \A c \in DOMAIN enc.frequency_maps_ :
              \A v \in DOMAIN enc.frequency_maps_[c] :
                  enc.frequency_maps_[c][v] \in Nat \ {0}
        /\ \A j \in 1..Width(ecall.X) :
              LET c == ecall.X.cols[j]
                  col == Column(ecall.X, j)
              IN  /\ c \in DOMAIN enc.frequency_maps_
                  /\ DOMAIN enc.frequency_maps_[c] = Range(col)
                  /\ TableSum(enc.frequency_maps_[c]) = Len(ecall.X.rows)

\* fit has returned from a two-row, two-column table: one column with one value
\* twice, the other with two values once each
C30_Witness ==
    /\ ecall.op = "fit" /\ ecall.X.kind = "df"
    /\ ecall.X.cols = <<"brokertitle", "type">>
    /\ ecall.X.rows = <<<<"A", "A">>, <<"A", "B">>>>
    /\ enc.frequency_maps_["brokertitle"] = [v \in {"A"} |-> 2]
    /\ enc.frequency_maps_["type"] = [v \in {"A", "B"} |-> 1]

=============================================================================
